---------------------------- MODULE Spec2Model ----------------------------
(***************************************************************************)
(* Number-theoretic core of the cryptography demonstrator:                 *)
(*   js/crypto-demos/math-utils.js  (gcd, extendedGCD, modInverse, modPow, *)
(*                                   modPowConstantTime, randomBigInt)     *)
(*   js/crypto-demos/rsa-core.js    (millerRabin, generatePrime,           *)
(*                                   generateKeyPair, encrypt, decrypt)    *)
(*   js/crypto-demos/ec-math-utils.js (field arithmetic, Point, pointAdd,  *)
(*                                   scalarMultiply, pointOrder)           *)
(*   js/crypto-demos/ec-visualization.js (finite field panel, ECDH and     *)
(*                                   ECDSA demonstrations)                 *)
(* BigInt values are modelled by integers; the BigInt operators / and %    *)
(* truncate toward zero and are modelled by JsDiv and JsRem.               *)
(***************************************************************************)
EXTENDS Integers, Sequences, FiniteSets, TLC

VARIABLES
    fn,         \* the pure function or cipher operation that was called
    args,       \* its arguments, in the order of the source's parameters
    ret,        \* what the call produced: a value, null, or a thrown error
    mrPc,       \* millerRabin: position in the function
    mrN,        \* millerRabin: n
    mrRounds,   \* millerRabin: rounds
    mrI,        \* millerRabin: loop counter i of witnessLoop
    mrDraw,     \* randomWitness: the last value randomBigInt produced
    mrRet,      \* millerRabin: the returned boolean
    kgPc,       \* generateKeyPair / generatePrime: position
    kgBits,     \* the bits argument of the running call
    kgP,        \* generateKeyPair: p (0 while not generated)
    kgQ,        \* generateKeyPair: q (0 while not generated)
    attempts,   \* generatePrime: attempts
    lastYield,  \* generatePrime: value of attempts at the last sleep(0)
    restarts,   \* generateKeyPair: number of recursive re-invocations so far
    primeRet,   \* value returned by a direct generatePrime call (0: none)
    keyPair,    \* the key pair: what generateKeyPair returned, or the keys in use
    message,    \* encrypt: the message argument
    ciphertext, \* what encrypt produced (a value or a thrown error)
    plaintext,  \* what decrypt produced (a value or a thrown error)
    currentFiniteCurve, \* ec-visualization.js: the finite field curve in use
    selectedPoints,     \* ECVisualizer: the points selected on the canvas
    pointOpsEnabled,    \* whether the point operation buttons are enabled
    operation,          \* the last point arithmetic the visualizer performed
    isAnimating,        \* ECVisualizer: isAnimating
    ecdsaState,         \* window.ecdsaState: what handleECDSASign stored
    verification,            \* what the last ECDSA verification returned
    ladder              \* scalarMultiplySecure: the call in progress

vars == <<fn, args, ret, mrPc, mrN, mrRounds, mrI, mrDraw, mrRet,
          kgPc, kgBits, kgP, kgQ, attempts, lastYield, restarts, primeRet, keyPair,
          message, ciphertext, plaintext,
          currentFiniteCurve, selectedPoints, pointOpsEnabled, operation, isAnimating,
          ecdsaState, verification, ladder>>

callVars == <<fn, args, ret>>
mrVars == <<mrPc, mrN, mrRounds, mrI, mrDraw, mrRet>>
kgVars == <<kgPc, kgBits, kgP, kgQ, attempts, lastYield, restarts, primeRet>>
cipherVars == <<message, ciphertext, plaintext>>
uiVars == <<currentFiniteCurve, selectedPoints, pointOpsEnabled, operation, isAnimating>>
ecdsaVars == <<ecdsaState, verification>>
ladderVars == <<ladder>>

-----------------------------------------------------------------------------
(* Bounds of the model.                                                    *)

\* largest base / message operand of the pure-function calls
MaxBase == 8
\* largest exponent of the pure-function calls (covers 3^13 and 2^10)
MaxExp == 14
\* largest modulus of the pure-function calls (1000 is added for 2^10 mod 1000)
MaxMod == 12
\* modInverse is called with a in -MaxInvA..MaxInvA
MaxInvA == 15
\* the random bytes of one randomBigInt call, read as a base-256 number, are
\* drawn from 0..MaxRandom
MaxRandom == 255
\* millerRabin is called with n in 0..MaxMillerRabinN (and the spec's examples)
MaxMillerRabinN == 40
\* randomBigInt is called with bits in 0..MaxBits
MaxBits == 14
\* millerRabin is called with rounds in 0..MaxRounds
MaxRounds == 2
\* generatePrime is called directly with bits in 2..MaxPrimeBits
MaxPrimeBits == 8
\* generatePrime makes at most MaxAttempts attempts in one call
MaxAttempts == 12
\* generateKeyPair re-invokes itself at most MaxRestarts times
MaxRestarts == 2
\* the key pairs handed to encrypt and decrypt have primes p, q <= MaxPrime
MaxPrime == 11
\* ... and exponents e, d <= MaxKeyExponent
MaxKeyExponent == 24
\* encrypt is called with messages from -MaxBeyond to n + MaxBeyond
MaxBeyond == 2

-----------------------------------------------------------------------------
(* Config.RSA                                                              *)

PUBLIC_EXPONENT == 65537
PRIMALITY_TEST_ROUNDS == 40
SMALL_PRIMES ==
    {2, 3, 5, 7, 11, 13, 17, 19, 23, 29, 31, 37, 41, 43, 47, 53, 59, 61, 67, 71,
     73, 79, 83, 89, 97, 101, 103, 107, 109, 113, 127, 131, 137, 139, 149, 151}
MIN_PQ_DIFFERENCE_BITS == 10

-----------------------------------------------------------------------------
(* BigInt arithmetic.                                                      *)

Abs(x) == IF x < 0 THEN -x ELSE x

\* BigInt a % b: the remainder has the sign of the dividend
JsRem(a, b) == IF a < 0 THEN -((-a) % Abs(b)) ELSE a % Abs(b)

\* BigInt a / b: the quotient is truncated toward zero
JsDiv(a, b) ==
    IF (a < 0) = (b < 0) THEN Abs(a) \div Abs(b) ELSE -(Abs(a) \div Abs(b))

\* const x = v; ...: v is evaluated once and the body F uses its value
Let(v, F(_)) == CHOOSE out \in { F(x) : x \in {v} } : TRUE

\* the same for the values carried from one loop iteration to the next
Let3(u, v, w, F(_, _, _)) ==
    CHOOSE out \in { F(x, y, z) : x \in {u}, y \in {v}, z \in {w} } : TRUE

RECURSIVE Pow2(_)
\* 1n << BigInt(k); a negative shift count shifts right, giving 0
Pow2(k) == IF k < 0 THEN 0 ELSE IF k = 0 THEN 1 ELSE 2 * Pow2(k - 1)

\* results of a call
NoResult == [kind |-> "none", val |-> 0]
Null == [kind |-> "null", val |-> 0]
Value(v) == [kind |-> "value", val |-> v]
Thrown(k) == [kind |-> k, val |-> 0]

-----------------------------------------------------------------------------
(* math-utils.js                                                           *)

RECURSIVE GcdLoop(_, _)
GcdLoop(a, b) == IF b # 0 THEN Let(JsRem(a, b), LAMBDA r : GcdLoop(b, r)) ELSE a

gcd(a, b) == Let3(Abs(a), Abs(b), 0, LAMBDA x, y, z : GcdLoop(x, y))

RECURSIVE extendedGCD(_, _)
extendedGCD(a, b) ==
    IF b = 0 THEN [gcd |-> a, x |-> 1, y |-> 0]
    ELSE Let(Let(JsRem(a, b), LAMBDA r : extendedGCD(b, r)),
             LAMBDA result : [gcd |-> result.gcd,
                              x   |-> result.y,
                              y   |-> result.x - JsDiv(a, b) * result.y])

modInverse(a, n) ==
    Let(extendedGCD(a, n), LAMBDA result :
        IF result.gcd # 1 THEN Null
        ELSE Let(JsRem(result.x, n), LAMBDA inverse :
                 IF inverse < 0 THEN Value(inverse + n) ELSE Value(inverse)))

RECURSIVE ModPowLoop_SkipSquare(_, _, _, _)
\* ModPowLoop with the squaring skipped whenever the current bit is 1
ModPowLoop_SkipSquare(result, currentBase, currentExponent, modulus) ==
    IF currentExponent > 0
    THEN Let3(IF JsRem(currentExponent, 2) = 1
                  THEN JsRem(result * currentBase, modulus)
                  ELSE result,
              IF JsRem(currentExponent, 2) = 1
                  THEN currentBase
                  ELSE JsRem(currentBase * currentBase, modulus),
              JsDiv(currentExponent, 2),
              LAMBDA r, b, e : ModPowLoop_SkipSquare(r, b, e, modulus))
    ELSE result

RECURSIVE ModPowLoop(_, _, _, _)
\* the while loop of modPow, from (result, currentBase, currentExponent)
ModPowLoop(result, currentBase, currentExponent, modulus) ==
    IF currentExponent > 0
    THEN Let3(IF JsRem(currentExponent, 2) = 1
                  THEN JsRem(result * currentBase, modulus)
                  ELSE result,
              JsRem(currentBase * currentBase, modulus),
              JsDiv(currentExponent, 2),
              LAMBDA r, b, e : ModPowLoop(r, b, e, modulus))
    ELSE result

\* modPow whose accumulator starts at base instead of 1
modPow_StartAtBase(base, exponent, modulus) ==
    IF modulus = 1 THEN 0
    ELSE IF exponent = 0 THEN 1
    ELSE IF exponent = 1 THEN JsRem(base, modulus)
    ELSE Let(JsRem(base, modulus), LAMBDA b : ModPowLoop(b, b, exponent, modulus))

modPow(base, exponent, modulus) ==
    IF modulus = 1 THEN 0
    ELSE IF exponent = 0 THEN 1
    ELSE IF exponent = 1 THEN JsRem(base, modulus)
    ELSE Let(JsRem(base, modulus), LAMBDA b : ModPowLoop(1, b, exponent, modulus))

RECURSIVE ToBinary(_)
\* exponent.toString(2) for exponent > 0: the binary digits, most significant first
ToBinary(n) == IF n < 2 THEN <<n>> ELSE Append(ToBinary(n \div 2), n % 2)

RECURSIVE LadderLoop(_, _, _, _, _)
\* the for loop of modPowConstantTime at 0-based index i (expBinary[i] is
\* expBinary[i + 1] here, sequences being 1-based)
LadderLoop(R0, R1, i, expBinary, modulus) ==
    IF i < Len(expBinary)
    THEN IF expBinary[i + 1] = 0
         THEN Let3(JsRem(R0 * R0, modulus), JsRem(R0 * R1, modulus), i + 1,
                   LAMBDA x, y, k : LadderLoop(x, y, k, expBinary, modulus))
         ELSE Let3(JsRem(R0 * R1, modulus), JsRem(R1 * R1, modulus), i + 1,
                   LAMBDA x, y, k : LadderLoop(x, y, k, expBinary, modulus))
    ELSE R0

modPowConstantTime(base, exponent, modulus) ==
    IF modulus = 1 THEN 0
    ELSE IF exponent = 0 THEN 1
    ELSE Let3(JsRem(base, modulus), ToBinary(exponent), 0,
              LAMBDA b, expBinary, z : LadderLoop(1, b, 1, expBinary, modulus))

\* the totient with only one factor decremented
eulerTotient_OneFactor(p, q) == (p - 1) * q

eulerTotient(p, q) == (p - 1) * (q - 1)

areCoprime(a, b) == gcd(a, b) = 1

-----------------------------------------------------------------------------
(* Calls of the pure functions with arguments from bounded sets.           *)

Bases == 0..MaxBase
Exps == 0..MaxExp
Mods == (1..MaxMod) \cup {1000}

InitCall == fn = "none" /\ args = <<>> /\ ret = NoResult
InitMR == mrPc = "idle" /\ mrN = 0 /\ mrRounds = 0 /\ mrI = 0 /\ mrDraw = 0
          /\ mrRet = FALSE
InitKG == kgPc = "idle" /\ kgBits = 0 /\ kgP = 0 /\ kgQ = 0 /\ attempts = 0
          /\ lastYield = 0 /\ restarts = 0 /\ primeRet = 0
InitCipher == message = 0 /\ ciphertext = NoResult /\ plaintext = NoResult

\* loadDefaultCurves: defaultFiniteCurve
DefaultFiniteCurve == [a |-> 0, b |-> 7, p |-> 23]

\* no point arithmetic performed yet
NoOperation == [op |-> "none", curve |-> DefaultFiniteCurve]

\* window.ecdsaState is not set before the first signature
NoEcdsaState == [signed |-> FALSE]

InitUI == /\ currentFiniteCurve = DefaultFiniteCurve
          /\ selectedPoints = <<>>
          /\ pointOpsEnabled = TRUE
          /\ operation = NoOperation
          /\ isAnimating = FALSE
\* no verification made yet
NoVerification == [verifyMessage |-> 0, result |-> "none"]

InitECDSA == ecdsaState = NoEcdsaState /\ verification = NoVerification

\* no scalarMultiplySecure call in progress
NoLadder == [pc |-> "idle"]

InitLadder == ladder = NoLadder

\* the object literal generateKeyPair returns
KeyPair(e, d, n, p, q, phi) ==
    [publicKey |-> [e |-> e, n |-> n], privateKey |-> [d |-> d, n |-> n],
     p |-> p, q |-> q, phi |-> phi]

\* let currentKeys = null
NoKeys == KeyPair(0, 0, 0, 0, 0, 0)

Init == /\ InitCall /\ InitMR /\ InitKG /\ InitCipher /\ keyPair = NoKeys
        /\ InitUI /\ InitECDSA /\ InitLadder

CallModPow ==
    /\ fn = "none"
    /\ \E base \in Bases, exponent \in Exps, modulus \in Mods :
          /\ fn' = "modPow"
          /\ args' = <<base, exponent, modulus>>
          /\ ret' = Value(modPow(base, exponent, modulus))
    /\ UNCHANGED <<mrVars, kgVars, keyPair, cipherVars, uiVars, ecdsaVars, ladderVars>>

CallModPowConstantTime ==
    /\ fn = "none"
    /\ \E base \in Bases, exponent \in Exps, modulus \in Mods :
          /\ fn' = "modPowConstantTime"
          /\ args' = <<base, exponent, modulus>>
          /\ ret' = Value(modPowConstantTime(base, exponent, modulus))
    /\ UNCHANGED <<mrVars, kgVars, keyPair, cipherVars, uiVars, ecdsaVars, ladderVars>>

CallModInverse ==
    /\ fn = "none"
    /\ \E a \in (-MaxInvA)..MaxInvA, n \in 2..MaxMod :
          /\ fn' = "modInverse"
          /\ args' = <<a, n>>
          /\ ret' = modInverse(a, n)
    /\ UNCHANGED <<mrVars, kgVars, keyPair, cipherVars, uiVars, ecdsaVars, ladderVars>>

NextMath == CallModPow \/ CallModPowConstantTime \/ CallModInverse

SpecMath == Init /\ [][NextMath]_vars

-----------------------------------------------------------------------------
(* Reference definitions used to state the properties.                     *)

\* trial division up to the square root
IsPrime(n) == n >= 2 /\ \A k \in 2..n : (k * k <= n) => n % k # 0

RECURSIVE PowMod(_, _, _)
\* base^exponent mod modulus from the definition of the power, for base >= 0,
\* exponent >= 0 and modulus >= 1
PowMod(base, exponent, modulus) ==
    IF exponent = 0 THEN 1 % modulus
    ELSE Let(PowMod(base, exponent - 1, modulus), LAMBDA r : (r * base) % modulus)

-----------------------------------------------------------------------------
(* math-utils.js: bitLength and randomBigInt.                              *)

RECURSIVE bitLength(_)
\* n.toString(2).length, 0 for n = 0
bitLength(n) == IF n = 0 THEN 0 ELSE 1 + bitLength(n \div 2)

\* Math.ceil(bits / 8)
ByteCount(bits) == (bits + 7) \div 8

RECURSIVE Pow256(_)
Pow256(k) == IF k <= 0 THEN 1 ELSE 256 * Pow256(k - 1)

RECURSIVE ToBytes(_, _)
\* the Uint8Array of `bytes` bytes whose big-endian value is raw
ToBytes(raw, bytes) ==
    IF bytes = 0 THEN <<>> ELSE Append(ToBytes(raw \div 256, bytes - 1), raw % 256)

\* what window.crypto.getRandomValues can put into the array of a
\* randomBigInt(bits) call, within the bound MaxRandom
RandomBytes(bits) ==
    LET top == Pow256(ByteCount(bits)) - 1
    IN  { ToBytes(raw, ByteCount(bits)) :
            raw \in 0..(IF top < MaxRandom THEN top ELSE MaxRandom) }

RECURSIVE FromBytes(_, _, _)
\* the loop result = (result << 8n) | BigInt(randomBytes[i]) from index i
FromBytes(result, i, randomBytes) ==
    IF i < Len(randomBytes)
    THEN Let(result * 256 + randomBytes[i + 1],
             LAMBDA r : FromBytes(r, i + 1, randomBytes))
    ELSE result

\* the most significant bit is not forced: the mask is never applied
OrMask_Dropped(result, mask) == result

\* result | mask for a mask that is 0 or a single bit
OrMask(result, mask) ==
    IF mask = 0 \/ (result \div mask) % 2 = 1 THEN result ELSE result + mask

\* result & maxValue for maxValue = 2^bits - 1
AndMaxValue(result, maxValue) == result % (maxValue + 1)

randomBigInt(bits, randomBytes) ==
    Let3(FromBytes(0, 0, randomBytes), Pow2(bits - 1), Pow2(bits) - 1,
         LAMBDA result, mask, maxValue : AndMaxValue(OrMask(result, mask), maxValue))

-----------------------------------------------------------------------------
(* rsa-core.js: millerRabin and randomWitness.                             *)

RECURSIVE OddPart(_)
\* d of n - 1 = 2^r * d, from d = n - 1
OddPart(d) == IF d % 2 = 0 THEN OddPart(d \div 2) ELSE d

RECURSIVE TwoPart(_)
\* r of n - 1 = 2^r * d, from d = n - 1
TwoPart(d) == IF d % 2 = 0 THEN 1 + TwoPart(d \div 2) ELSE 0

RECURSIVE SquareLoop(_, _, _, _)
\* the inner for loop of millerRabin from index j: TRUE when some squaring
\* reaches n - 1 (continue witnessLoop), FALSE when the loop runs out
SquareLoop(x, j, r, n) ==
    IF j < r - 1
    THEN Let(modPow(x, 2, n),
             LAMBDA x2 : IF x2 = n - 1 THEN TRUE ELSE SquareLoop(x2, j + 1, r, n))
    ELSE FALSE

\* one iteration of witnessLoop with witness a: TRUE when it continues with
\* the next witness, FALSE when millerRabin returns false
WitnessPasses(a, n) ==
    Let3(OddPart(n - 1), TwoPart(n - 1), 0, LAMBDA d, r, z :
         Let(modPow(a, d, n), LAMBDA x :
             IF x = 1 \/ x = n - 1 THEN TRUE ELSE SquareLoop(x, 0, r, n)))

\* the condition under which randomWitness draws again
WitnessRejected(witness, n) == witness < 2 \/ witness >= n - 1

\* the values a randomBigInt(bits) call can produce, for each bit length used
RandomBigInts ==
    [bits \in 0..MaxBits |->
        { randomBigInt(bits, randomBytes) : randomBytes \in RandomBytes(bits) }]

\* the values one randomBigInt call of randomWitness(n) can produce
WitnessDraws(n) == RandomBigInts[bitLength(n)]

MillerRabinInputs == (0..MaxMillerRabinN) \cup {97, 100, 561, 7919}

\* millerRabin(n, rounds) up to the first randomWitness call
MRCall ==
    /\ mrPc = "idle"
    /\ \E n \in MillerRabinInputs, rounds \in 0..MaxRounds :
          /\ mrN' = n
          /\ mrRounds' = rounds
          /\ IF n <= 1 THEN mrPc' = "done" /\ mrRet' = FALSE
             ELSE IF n <= 3 THEN mrPc' = "done" /\ mrRet' = TRUE
             ELSE IF n % 2 = 0 THEN mrPc' = "done" /\ mrRet' = FALSE
             ELSE IF rounds = 0 THEN mrPc' = "done" /\ mrRet' = TRUE
             ELSE mrPc' = "randomWitness" /\ mrRet' = FALSE
    /\ UNCHANGED <<mrI, mrDraw, callVars, kgVars, keyPair, cipherVars, uiVars, ecdsaVars, ladderVars>>

\* randomWitness: a draw that fails the do-while test, so the loop draws again
MRDrawRejected ==
    /\ mrPc = "randomWitness"
    /\ \E witness \in WitnessDraws(mrN) :
          /\ WitnessRejected(witness, mrN)
          /\ mrDraw' = witness
    /\ UNCHANGED <<mrPc, mrN, mrRounds, mrI, mrRet, callVars, kgVars, keyPair, cipherVars, uiVars, ecdsaVars, ladderVars>>

\* randomWitness returns a, and the rest of the witnessLoop iteration runs
MRDrawAccepted ==
    /\ mrPc = "randomWitness"
    /\ \E a \in WitnessDraws(mrN) :
          /\ ~WitnessRejected(a, mrN)
          /\ mrDraw' = a
          /\ IF ~WitnessPasses(a, mrN)
             THEN mrPc' = "done" /\ mrRet' = FALSE /\ mrI' = mrI
             ELSE IF mrI + 1 < mrRounds
             THEN mrPc' = "randomWitness" /\ mrRet' = FALSE /\ mrI' = mrI + 1
             ELSE mrPc' = "done" /\ mrRet' = TRUE /\ mrI' = mrI + 1
    /\ UNCHANGED <<mrN, mrRounds, callVars, kgVars, keyPair, cipherVars, uiVars, ecdsaVars, ladderVars>>

NextMR == MRCall \/ MRDrawRejected \/ MRDrawAccepted

SpecMR == Init /\ [][NextMR]_vars

\* randomWitness keeps drawing, and every draw is an independent sample: a
\* value that ends the do-while loop is eventually drawn whenever one exists
SpecMRFair == SpecMR /\ WF_vars(NextMR) /\ SF_vars(MRDrawAccepted)

\* C6: millerRabin(n, rounds) with rounds >= 1 returns true for every prime n
\* whatever witnesses are drawn, and returns false for the composites 4, 15,
\* 100 and 561.
C6_Claim ==
    /\ [](mrPc = "done" /\ mrRounds >= 1 /\ mrN \in {4, 15, 100, 561} => mrRet = FALSE)
    /\ [](mrPc # "idle" /\ mrRounds >= 1 /\ IsPrime(mrN)
            => <>(mrPc = "done" /\ mrRet = TRUE))

\* the part of C6 that the code keeps: whenever millerRabin returns, it returns
\* true for a prime and false for 4, 15, 100 and 561
C6_WhenItReturns ==
    (mrPc = "done" /\ mrRounds >= 1) =>
        /\ IsPrime(mrN) => mrRet = TRUE
        /\ mrN \in {4, 15, 100, 561} => mrRet = FALSE

\* the input on which C6 fails: no value randomWitness(5) draws is in [2, 3]
C6_NoWitnessForFive ==
    (mrPc = "randomWitness" /\ mrN = 5) =>
        \A witness \in WitnessDraws(mrN) : WitnessRejected(witness, mrN)

-----------------------------------------------------------------------------
(* rsa-core.js: encrypt and decrypt.                                       *)

\* encrypt whose size test is message > n
encrypt_AcceptsModulus(msg, publicKey) ==
    IF msg > publicKey.n THEN Thrown("Message too large")
    ELSE IF msg < 0 THEN Thrown("Message must be non-negative")
    ELSE Value(modPow(msg, publicKey.e, publicKey.n))

encrypt(msg, publicKey) ==
    IF msg >= publicKey.n THEN Thrown("Message too large")
    ELSE IF msg < 0 THEN Thrown("Message must be non-negative")
    ELSE Value(modPow(msg, publicKey.e, publicKey.n))

\* decrypt calling the constant-time exponentiation instead of modPow
decrypt_ConstantTime(c, privateKey) ==
    IF c >= privateKey.n THEN Thrown("Invalid ciphertext")
    ELSE IF c < 0 THEN Thrown("Ciphertext must be non-negative")
    ELSE Value(modPowConstantTime(c, privateKey.d, privateKey.n))

decrypt(c, privateKey) ==
    IF c >= privateKey.n THEN Thrown("Invalid ciphertext")
    ELSE IF c < 0 THEN Thrown("Ciphertext must be non-negative")
    ELSE Value(modPow(c, privateKey.d, privateKey.n))

\* key pairs that satisfy the KeyPair invariant, within MaxPrime and
\* MaxKeyExponent
TestKeyPairs ==
    { KeyPair(e, d, pq[1] * pq[2], pq[1], pq[2], eulerTotient(pq[1], pq[2])) :
        pq \in { x \in (2..MaxPrime) \X (2..MaxPrime) :
                   IsPrime(x[1]) /\ IsPrime(x[2]) /\ x[1] # x[2] },
        e \in 1..MaxKeyExponent, d \in 1..MaxKeyExponent }

ValidKeyPairs ==
    { k \in TestKeyPairs : (k.publicKey.e * k.privateKey.d) % k.phi = 1 }

InitCipherKeys ==
    /\ InitCall /\ InitMR /\ InitKG /\ InitCipher /\ keyPair \in ValidKeyPairs
    /\ InitUI /\ InitECDSA /\ InitLadder

Encrypt ==
    /\ ciphertext = NoResult
    /\ \E m \in (-MaxBeyond)..(keyPair.publicKey.n + MaxBeyond) :
          /\ message' = m
          /\ ciphertext' = encrypt(m, keyPair.publicKey)
    /\ UNCHANGED <<plaintext, keyPair, callVars, mrVars, kgVars, uiVars, ecdsaVars, ladderVars>>

\* decrypt of the ciphertext encrypt returned
Decrypt ==
    /\ ciphertext.kind = "value"
    /\ plaintext = NoResult
    /\ plaintext' = decrypt(ciphertext.val, keyPair.privateKey)
    /\ UNCHANGED <<message, ciphertext, keyPair, callVars, mrVars, kgVars, uiVars, ecdsaVars, ladderVars>>

NextCipher == Encrypt \/ Decrypt

SpecCipher == InitCipherKeys /\ [][NextCipher]_vars

\* C1: For every key pair satisfying the KeyPair invariant (n = p*q with
\* distinct primes p, q and e*d mod (p-1)(q-1) = 1) and every integer m with
\* 0 <= m < n, decrypt(encrypt(m, {e,n}), {d,n}) returns m.
C1_RoundTrip ==
    /\ (0 <= message /\ message < keyPair.publicKey.n /\ ciphertext # NoResult)
          => ciphertext.kind = "value"
    /\ plaintext # NoResult => plaintext = Value(message)

C1_Witness ==
    /\ plaintext = Value(message)
    /\ message > 1
    /\ ciphertext.val # message
    /\ keyPair.publicKey.e > 1

\* C4 as stated: encrypt(m, {e,n}) fails with the MessageTooLarge error for
\* every m outside 0 <= m < n, and returns modPow(m, e, n) for 0 <= m < n.
C4_Original ==
    ciphertext # NoResult =>
        IF 0 <= message /\ message < keyPair.publicKey.n
        THEN ciphertext = Value(modPow(message, keyPair.publicKey.e, keyPair.publicKey.n))
        ELSE ciphertext = Thrown("Message too large")

\* C4 amended: encrypt(m, {e,n}) fails with the MessageTooLarge error for every
\* m >= n, in particular for m = n, and with the separate "Message must be
\* non-negative" error for every m < 0; it never returns a ciphertext for such
\* m; for 0 <= m < n it returns modPow(m, e, n), which is m^e mod n.
C4_EncryptRange ==
    ciphertext # NoResult =>
        /\ message >= keyPair.publicKey.n => ciphertext = Thrown("Message too large")
        /\ message < 0 => ciphertext = Thrown("Message must be non-negative")
        /\ (0 <= message /\ message < keyPair.publicKey.n) =>
              /\ ciphertext = Value(modPow(message, keyPair.publicKey.e, keyPair.publicKey.n))
              /\ ciphertext = Value(PowMod(message, keyPair.publicKey.e, keyPair.publicKey.n))

C4_Witness ==
    /\ message = keyPair.publicKey.n
    /\ ciphertext = Thrown("Message too large")

-----------------------------------------------------------------------------
(* rsa-core.js: generatePrime and generateKeyPair.                         *)

\* the booleans millerRabin(n, rounds) can return over all witness draws;
\* empty when randomWitness(n) never gets a witness in [2, n - 2]
MillerRabinReturns(n, rounds) ==
    IF n <= 1 THEN {FALSE}
    ELSE IF n <= 3 THEN {TRUE}
    ELSE IF n % 2 = 0 THEN {FALSE}
    ELSE IF rounds = 0 THEN {TRUE}
    ELSE Let({ a \in WitnessDraws(n) : ~WitnessRejected(a, n) }, LAMBDA witnesses :
             { b \in BOOLEAN : \E a \in witnesses : WitnessPasses(a, n) = b })

\* candidate = randomBigInt(bits), made odd
Candidate(drawn) == IF drawn % 2 = 0 THEN drawn + 1 ELSE drawn

\* the trial division loop of generatePrime
DivisibleBySmallPrime(candidate) ==
    \E sp \in SMALL_PRIMES : candidate % sp = 0 /\ candidate # sp

RECURSIVE BigMulRem(_, _, _)
\* (a * b) % m on BigInt operands a, b >= 0, m >= 1: the exact product is
\* never formed here, so that it cannot exceed the model checker's integers
BigMulRem(a, b, m) ==
    IF b = 0 THEN 0
    ELSE Let(BigMulRem(a, b \div 2, m), LAMBDA h : (2 * h + (b % 2) * (a % m)) % m)

\* the candidates generatePrime(bits) passes on to millerRabin
TestedCandidates(bits) ==
    { c \in { Candidate(drawn) : drawn \in RandomBigInts[bits] } :
        ~DivisibleBySmallPrime(c) }

\* millerRabin(candidate) with the default number of rounds, for every
\* candidate a generatePrime call of this model can test
CandidateTests ==
    [c \in UNION { TestedCandidates(bits) : bits \in 0..MaxBits } |->
        MillerRabinReturns(c, PRIMALITY_TEST_ROUNDS)]

KeySizes == {6, 10, 12, 28}

\* Math.floor(bits / 2)
HalfBits(bits) == bits \div 2

CallGenerateKeyPair ==
    /\ kgPc = "idle"
    /\ \E bits \in KeySizes : kgBits' = bits
    /\ kgPc' = "generatePrime p"
    /\ UNCHANGED <<kgP, kgQ, attempts, lastYield, restarts, primeRet, keyPair,
                   callVars, mrVars, cipherVars, uiVars, ecdsaVars, ladderVars>>

CallGeneratePrime ==
    /\ kgPc = "idle"
    /\ \E bits \in 2..MaxPrimeBits : kgBits' = bits
    /\ kgPc' = "generatePrime"
    /\ UNCHANGED <<kgP, kgQ, attempts, lastYield, restarts, primeRet, keyPair,
                   callVars, mrVars, cipherVars, uiVars, ecdsaVars, ladderVars>>

\* the bits argument of the generatePrime call in progress
PrimeBits == IF kgPc = "generatePrime" THEN kgBits ELSE HalfBits(kgBits)

\* generatePrime returns candidate to whoever called it
PrimeFound(candidate) ==
    /\ attempts' = 0
    /\ lastYield' = 0
    /\ IF kgPc = "generatePrime"
       THEN kgPc' = "prime returned" /\ primeRet' = candidate /\ UNCHANGED <<kgP, kgQ>>
       ELSE IF kgPc = "generatePrime p"
       THEN kgPc' = "generatePrime q" /\ kgP' = candidate /\ UNCHANGED <<kgQ, primeRet>>
       ELSE /\ kgQ' = candidate
            /\ kgPc' = IF candidate = kgP THEN "generatePrime q" ELSE "checks"
            /\ UNCHANGED <<kgP, primeRet>>

\* one iteration of the while (true) loop of generatePrime
PrimeAttempt ==
    /\ kgPc \in {"generatePrime", "generatePrime p", "generatePrime q"}
    /\ attempts < MaxAttempts
    /\ \E drawn \in RandomBigInts[PrimeBits] :
          LET candidate == Candidate(drawn)
          IN  IF DivisibleBySmallPrime(candidate)
              THEN \* continue
                   /\ attempts' = attempts + 1
                   /\ UNCHANGED <<kgPc, kgP, kgQ, lastYield, primeRet>>
              ELSE IF CandidateTests[candidate] = {}
              THEN \* millerRabin never returns
                   /\ kgPc' = "millerRabin does not return"
                   /\ attempts' = attempts + 1
                   /\ UNCHANGED <<kgP, kgQ, lastYield, primeRet>>
              ELSE \E isPrime \in CandidateTests[candidate] :
                      IF isPrime
                      THEN PrimeFound(candidate)
                      ELSE /\ attempts' = attempts + 1
                           /\ lastYield' = IF (attempts + 1) % 10 = 0
                                           THEN attempts + 1 ELSE lastYield
                           /\ UNCHANGED <<kgPc, kgP, kgQ, primeRet>>
    /\ UNCHANGED <<kgBits, restarts, keyPair, callVars, mrVars, cipherVars, uiVars, ecdsaVars, ladderVars>>

\* return generateKeyPair(bits, progressCallback)
Restart ==
    /\ restarts < MaxRestarts
    /\ restarts' = restarts + 1
    /\ kgPc' = "generatePrime p"
    /\ kgP' = 0
    /\ kgQ' = 0
    /\ UNCHANGED keyPair

\* generateKeyPair from the |p - q| check to its return
KeyPairChecks ==
    /\ kgPc = "checks"
    /\ LET p == kgP
           q == kgQ
           diff == IF p > q THEN p - q ELSE q - p
           minDiff == Pow2(HalfBits(kgBits) - 10)
           n == p * q
           phi == eulerTotient(p, q)
           e == PUBLIC_EXPONENT
           d == modInverse(e, phi)
       IN  IF diff < MIN_PQ_DIFFERENCE_BITS THEN Restart
           ELSE IF ~areCoprime(e, phi) THEN Restart
           ELSE IF d = Null THEN Restart
           ELSE IF BigMulRem(e, d.val, phi) # 1 THEN Restart
           ELSE /\ kgPc' = "key pair returned"
                /\ keyPair' = KeyPair(e, d.val, n, p, q, phi)
                /\ UNCHANGED <<kgP, kgQ, restarts>>
    /\ UNCHANGED <<kgBits, attempts, lastYield, primeRet, callVars, mrVars, cipherVars, uiVars, ecdsaVars, ladderVars>>

NextKeyGen == CallGenerateKeyPair \/ CallGeneratePrime \/ PrimeAttempt \/ KeyPairChecks

SpecKeyGen == Init /\ [][NextKeyGen]_vars

\* C2: Every key pair returned by generateKeyPair satisfies n = p*q, p != q,
\* phi = (p-1)(q-1), gcd(e, phi) = 1 and (e*d) mod phi = 1, with e = 65537 and
\* the same n in publicKey and privateKey, whatever primes are drawn and
\* however many restarts happen.
C2_KeyPairInvariant ==
    kgPc = "key pair returned" =>
        /\ keyPair.publicKey.n = keyPair.p * keyPair.q
        /\ keyPair.p # keyPair.q
        /\ keyPair.phi = (keyPair.p - 1) * (keyPair.q - 1)
        /\ gcd(keyPair.publicKey.e, keyPair.phi) = 1
        /\ BigMulRem(keyPair.publicKey.e, keyPair.privateKey.d, keyPair.phi) = 1
        /\ keyPair.publicKey.e = 65537
        /\ keyPair.privateKey.n = keyPair.publicKey.n

C2_Witness ==
    /\ kgPc = "key pair returned"
    /\ restarts > 0
    /\ keyPair.p > 8192

\* C3: generateKeyPair(bits) never returns a key pair whose primes are closer
\* than the minimum-difference threshold: every returned pair has |p - q| at
\* least 2^(bits/2 - 10).
C3_Claim ==
    kgPc = "key pair returned" =>
        Abs(keyPair.p - keyPair.q) >= Pow2(HalfBits(kgBits) - 10)

\* C5: For every requested bit length bits >= 2 and whatever random bytes are
\* drawn, any value returned by generatePrime(bits) is odd and has exactly
\* `bits` bits (2^(bits-1) <= result < 2^bits).
C5_PrimeOddAndSized ==
    /\ kgPc = "prime returned" =>
          /\ primeRet % 2 = 1
          /\ Pow2(kgBits - 1) <= primeRet /\ primeRet < Pow2(kgBits)
    /\ \A r \in {kgP, kgQ} :
          r # 0 => /\ r % 2 = 1
                   /\ Pow2(HalfBits(kgBits) - 1) <= r /\ r < Pow2(HalfBits(kgBits))

C5_Witness == kgPc = "prime returned" /\ kgBits = 8 /\ primeRet = 251

-----------------------------------------------------------------------------
(* Properties of the pure functions (SpecMath).                            *)

\* C7: modPow(base, exp, mod) equals base^exp mod mod for all base >= 0,
\* exp >= 0 and mod >= 1, with modPow(b, e, 1) = 0 and modPow(b, 0, m) = 1 for
\* m > 1; in particular modPow(2, 10, 1000) = 24 and modPow(3, 5, 7) = 5.
C7_ModPowIsPower ==
    fn = "modPow" =>
        /\ ret = Value(PowMod(args[1], args[2], args[3]))
        /\ args[3] = 1 => ret.val = 0
        /\ (args[2] = 0 /\ args[3] > 1) => ret.val = 1
        /\ args = <<2, 10, 1000>> => ret.val = 24
        /\ args = <<3, 5, 7>> => ret.val = 5

C7_Witness == fn = "modPow" /\ args = <<2, 10, 1000>> /\ ret = Value(24)

\* C8 as stated: modPow(3, 13, 7) returns 6.
C8_Original == (fn = "modPow" /\ args = <<3, 13, 7>>) => ret = Value(6)

\* C8 amended: modPow(3, 13, 7) returns 3, the result of the worked example
\* in the comment above modPow (3^13 = 1594323 = 7 * 227760 + 3).
C8_ModPowWorkedExample == (fn = "modPow" /\ args = <<3, 13, 7>>) => ret = Value(3)

C8_Witness == fn = "modPow" /\ args = <<3, 13, 7>> /\ ret.kind = "value"

\* C9: modPowConstantTime(base, exp, mod) returns base^exp mod mod, the same
\* value as modPow(base, exp, mod), for all base >= 0, exp >= 0 and mod >= 1.
C9_Claim ==
    fn = "modPowConstantTime" =>
        /\ ret = Value(PowMod(args[1], args[2], args[3]))
        /\ ret = Value(modPow(args[1], args[2], args[3]))

\* C10: modInverse(a, n) returns null exactly when gcd(|a|, n) # 1; otherwise
\* it returns d with 0 <= d < n and (a * d) mod n = 1, for every integer a and
\* every modulus n > 1.
C10_Claim ==
    fn = "modInverse" =>
        /\ (ret = Null) <=> (gcd(args[1], args[2]) # 1)
        /\ ret # Null =>
              /\ ret.kind = "value"
              /\ 0 <= ret.val /\ ret.val < args[2]
              /\ (args[1] * ret.val) % args[2] = 1

-----------------------------------------------------------------------------
(* ec-math-utils.js: finite field arithmetic.                              *)

modAdd(a, b, p) == JsRem(a + b, p)

modSub(a, b, p) ==
    Let(JsRem(a - b, p), LAMBDA result : IF result < 0 THEN result + p ELSE result)

modMul(a, b, p) == JsRem(a * b, p)

\* delegates to MathUtils.modInverse
modInv(a, p) == modInverse(a, p)

\* a call that threw makes its caller throw the same error
Then(r, F(_)) == Let(r, LAMBDA v : IF v.kind = "value" THEN F(v.val) ELSE v)

\* the Euler criterion is skipped: every residue gets a root
modSqrt_NoEulerCriterion(a, p) ==
    IF a = 0 THEN Value(0)
    ELSE IF JsRem(p, 4) = 3
         THEN Value(modPow(JsRem(a, p), JsDiv(p + 1, 4), p))
         ELSE Thrown("modSqrt for p = 1 (mod 4) not implemented")

modSqrt(a, p) ==
    IF a = 0 THEN Value(0)
    ELSE Let(Let(JsRem(a, p), LAMBDA r : IF r < 0 THEN r + p ELSE r), LAMBDA a1 :
         Let(modPow(a1, JsDiv(p - 1, 2), p), LAMBDA eulerCriterion :
             IF eulerCriterion # 1 THEN Null
             ELSE IF JsRem(p, 4) = 3
                  THEN Value(modPow(a1, JsDiv(p + 1, 4), p))
                  ELSE Thrown("modSqrt for p = 1 (mod 4) not implemented")))

-----------------------------------------------------------------------------
(* ec-math-utils.js: class Point, validation and point arithmetic.         *)

\* new Point(x, y, curve)
Point(x, y, curve) == [x |-> x, y |-> y, curve |-> curve, isInfinity |-> FALSE]

\* Point.infinity(curve)
infinity(curve) == [x |-> 0, y |-> 0, curve |-> curve, isInfinity |-> TRUE]

equals(P, other) ==
    IF P.isInfinity /\ other.isInfinity THEN TRUE
    ELSE IF P.isInfinity \/ other.isInfinity THEN FALSE
    ELSE P.x = other.x /\ P.y = other.y

clone(P) == IF P.isInfinity THEN infinity(P.curve) ELSE Point(P.x, P.y, P.curve)

isOnCurve(P) ==
    IF P.isInfinity THEN TRUE
    ELSE LET a == P.curve.a
             b == P.curve.b
             p == P.curve.p
             lhs == modMul(P.y, P.y, p)
             x2 == modMul(P.x, P.x, p)
             x3 == modMul(x2, P.x, p)
             ax == modMul(a, P.x, p)
             rhs == modAdd(modAdd(x3, ax, p), b, p)
         IN  lhs = rhs

validateCurveParameters(curve) ==
    LET a == curve.a
        b == curve.b
        p == curve.p
        a2 == modMul(a, a, p)
        a3 == modMul(a2, a, p)
        fourA3 == modMul(4, a3, p)
        b2 == modMul(b, b, p)
        twentySevenB2 == modMul(27, b2, p)
        discriminant == modAdd(fourA3, twentySevenB2, p)
    IN  discriminant # 0

\* the y coordinate is kept as it is
pointNegate_KeepsY(P) == P

pointNegate(P) ==
    IF P.isInfinity THEN infinity(P.curve)
    ELSE Point(P.x, IF P.y = 0 THEN 0 ELSE P.curve.p - P.y, P.curve)

pointDouble(P) ==
    IF P.isInfinity THEN Value(infinity(P.curve))
    ELSE IF P.y = 0 THEN Value(infinity(P.curve))
    ELSE LET a == P.curve.a
             p == P.curve.p
         IN  Let3(modAdd(modMul(3, modMul(P.x, P.x, p), p), a, p),
                  modInv(modMul(2, P.y, p), p), 0,
                  LAMBDA numerator, denominatorInv, z :
             IF denominatorInv = Null
             THEN Thrown("Division by zero in point doubling")
             ELSE Let(modMul(numerator, denominatorInv.val, p), LAMBDA lambda :
                  Let(modSub(modMul(lambda, lambda, p), modMul(2, P.x, p), p), LAMBDA x3 :
                  Let(modSub(modMul(lambda, modSub(P.x, x3, p), p), P.y, p), LAMBDA y3 :
                      Value(Point(x3, y3, P.curve))))))

\* the slope is taken from Q to P with the sign of the numerator lost
pointAdd_SlopeFromP(P, Q) ==
    IF P.isInfinity THEN Value(clone(Q))
    ELSE IF Q.isInfinity THEN Value(clone(P))
    ELSE IF P.x = Q.x /\ P.y # Q.y THEN Value(infinity(P.curve))
    ELSE IF P.x = Q.x /\ P.y = Q.y THEN pointDouble(P)
    ELSE LET p == P.curve.p
         IN  Let3(modSub(Q.y, P.y, p), modInv(modSub(P.x, Q.x, p), p), 0,
                  LAMBDA numerator, denominatorInv, z :
             IF denominatorInv = Null
             THEN Thrown("Division by zero in point addition")
             ELSE Let(modMul(numerator, denominatorInv.val, p), LAMBDA lambda :
                  Let(modSub(modSub(modMul(lambda, lambda, p), P.x, p), Q.x, p), LAMBDA x3 :
                  Let(modSub(modMul(lambda, modSub(P.x, x3, p), p), P.y, p), LAMBDA y3 :
                      Value(Point(x3, y3, P.curve))))))

pointAdd(P, Q) ==
    IF P.isInfinity THEN Value(clone(Q))
    ELSE IF Q.isInfinity THEN Value(clone(P))
    ELSE IF P.x = Q.x /\ P.y # Q.y THEN Value(infinity(P.curve))
    ELSE IF P.x = Q.x /\ P.y = Q.y THEN pointDouble(P)
    ELSE LET p == P.curve.p
         IN  Let3(modSub(Q.y, P.y, p), modInv(modSub(Q.x, P.x, p), p), 0,
                  LAMBDA numerator, denominatorInv, z :
             IF denominatorInv = Null
             THEN Thrown("Division by zero in point addition")
             ELSE Let(modMul(numerator, denominatorInv.val, p), LAMBDA lambda :
                  Let(modSub(modSub(modMul(lambda, lambda, p), P.x, p), Q.x, p), LAMBDA x3 :
                  Let(modSub(modMul(lambda, modSub(P.x, x3, p), p), P.y, p), LAMBDA y3 :
                      Value(Point(x3, y3, P.curve))))))

RECURSIVE ScalarMultiplyLoop_NoDoubling(_, _, _)
\* temp is never doubled: every set bit adds P itself
ScalarMultiplyLoop_NoDoubling(result, temp, scalar) ==
    IF scalar > 0
    THEN Then(IF JsRem(scalar, 2) = 1 THEN pointAdd(result, temp) ELSE Value(result),
              LAMBDA r : ScalarMultiplyLoop_NoDoubling(r, temp, JsDiv(scalar, 2)))
    ELSE Value(result)

RECURSIVE ScalarMultiplyLoop(_, _, _)
\* the while (scalar > 0n) loop of scalarMultiply
ScalarMultiplyLoop(result, temp, scalar) ==
    IF scalar > 0
    THEN Then(IF JsRem(scalar, 2) = 1 THEN pointAdd(result, temp) ELSE Value(result),
              LAMBDA r : Then(pointDouble(temp),
              LAMBDA t : ScalarMultiplyLoop(r, t, JsDiv(scalar, 2))))
    ELSE Value(result)

scalarMultiply(k, P) ==
    IF k = 0 THEN Value(infinity(P.curve))
    ELSE IF k = 1 THEN Value(clone(P))
    ELSE IF k < 0 THEN Thrown("Scalar must be non-negative")
    ELSE ScalarMultiplyLoop(infinity(P.curve), clone(P), k)

\* k.toString(2).length: a negative k prints with a leading minus sign
BinaryStringLength(k) == IF k < 0 THEN 1 + bitLength(-k) ELSE bitLength(k)

\* (k >> BigInt(i)) & 1n: >> is an arithmetic shift, & works on two's complement
BitAt(k, i) == (k \div Pow2(i)) % 2

RECURSIVE LadderLoopEC(_, _, _, _)
\* the for loop of scalarMultiplySecure, from i down to 0
LadderLoopEC(R0, R1, i, k) ==
    IF i >= 0
    THEN IF BitAt(k, i) = 0
         THEN Then(pointAdd(R0, R1), LAMBDA newR1 :
              Then(pointDouble(R0), LAMBDA newR0 : LadderLoopEC(newR0, newR1, i - 1, k)))
         ELSE Then(pointAdd(R0, R1), LAMBDA newR0 :
              Then(pointDouble(R1), LAMBDA newR1 : LadderLoopEC(newR0, newR1, i - 1, k)))
    ELSE Value(R0)

scalarMultiplySecure(k, P) ==
    IF k = 0 THEN Value(infinity(P.curve))
    ELSE IF k = 1 THEN Value(clone(P))
    ELSE LadderLoopEC(infinity(P.curve), clone(P), BinaryStringLength(k) - 1, k)

-----------------------------------------------------------------------------
(* ec-demo.js / ec-visualization.js: computePointCount.                    *)

RECURSIVE PointCountLoop(_, _, _)
\* the for (let x = 0n; x < p; x++) loop of computePointCount
PointCountLoop(x, count, curve) ==
    IF x < curve.p
    THEN LET p == curve.p
             x2 == modMul(x, x, p)
             x3 == modMul(x2, x, p)
             ax == modMul(curve.a, x, p)
         IN  Let(modSqrt(modAdd(modAdd(x3, ax, p), curve.b, p), p), LAMBDA y :
                 IF y.kind \notin {"value", "null"} THEN y
                 ELSE IF y = Null THEN PointCountLoop(x + 1, count, curve)
                 ELSE IF y.val # 0 THEN PointCountLoop(x + 1, count + 2, curve)
                 ELSE PointCountLoop(x + 1, count + 1, curve))
    ELSE Value(count)

computePointCount(curve) == PointCountLoop(0, 1, curve)

-----------------------------------------------------------------------------
(* Calls of the elliptic curve functions with arguments from bounded sets. *)

\* curve moduli p range over 2..MaxModulus (and the two test curves)
MaxModulus == 5
\* scalars k range over -MaxBeyond..MaxScalar
MaxScalar == 26

\* handleFiniteCurveChange: 'test-97'
TestCurve97 == [a |-> 2, b |-> 3, p |-> 97]

Curves ==
    { [a |-> a, b |-> b, p |-> p] :
        a \in 0..(MaxModulus - 1), b \in 0..(MaxModulus - 1), p \in 2..MaxModulus }
    \cup {DefaultFiniteCurve, TestCurve97}

\* the curves validateCurveParameters accepts
ValidCurves == { curve \in Curves : validateCurveParameters(curve) }

\* the points isOnCurve accepts, with coordinates from 0 to p + MaxBeyond
AcceptedPoints ==
    [curve \in Curves |->
        {infinity(curve)} \cup
        { P \in { Point(x, y, curve) : x \in 0..(curve.p + MaxBeyond),
                                       y \in 0..(curve.p + MaxBeyond) } :
            isOnCurve(P) }]

\* ... and those among them whose coordinates are field elements
FieldPoints ==
    [curve \in Curves |->
        { P \in AcceptedPoints[curve] :
            P.isInfinity \/ (P.x < curve.p /\ P.y < curve.p) }]

Scalars == (-MaxBeyond)..MaxScalar

CallPointAdd ==
    /\ fn = "none"
    /\ \E curve \in ValidCurves : \E P \in AcceptedPoints[curve], Q \in AcceptedPoints[curve] :
          /\ fn' = "pointAdd"
          /\ args' = <<P, Q>>
          /\ ret' = pointAdd(P, Q)
    /\ UNCHANGED <<mrVars, kgVars, keyPair, cipherVars, uiVars, ecdsaVars, ladderVars>>

CallPointNegate ==
    /\ fn = "none"
    /\ \E curve \in ValidCurves : \E P \in AcceptedPoints[curve] :
          /\ fn' = "pointNegate"
          /\ args' = <<P>>
          /\ ret' = Value(pointNegate(P))
    /\ UNCHANGED <<mrVars, kgVars, keyPair, cipherVars, uiVars, ecdsaVars, ladderVars>>

CallPointDouble ==
    /\ fn = "none"
    /\ \E curve \in ValidCurves : \E P \in AcceptedPoints[curve] :
          /\ fn' = "pointDouble"
          /\ args' = <<P>>
          /\ ret' = pointDouble(P)
    /\ UNCHANGED <<mrVars, kgVars, keyPair, cipherVars, uiVars, ecdsaVars, ladderVars>>

CallScalarMultiply ==
    /\ fn = "none"
    /\ \E curve \in ValidCurves : \E P \in FieldPoints[curve], k \in Scalars :
          /\ fn' = "scalarMultiply"
          /\ args' = <<k, P>>
          /\ ret' = scalarMultiply(k, P)
    /\ UNCHANGED <<mrVars, kgVars, keyPair, cipherVars, uiVars, ecdsaVars, ladderVars>>

CallScalarMultiplySecure ==
    /\ fn = "none"
    /\ \E curve \in ValidCurves : \E P \in FieldPoints[curve], k \in Scalars :
          /\ fn' = "scalarMultiplySecure"
          /\ args' = <<k, P>>
          /\ ret' = scalarMultiplySecure(k, P)
    /\ UNCHANGED <<mrVars, kgVars, keyPair, cipherVars, uiVars, ecdsaVars, ladderVars>>

CallComputePointCount ==
    /\ fn = "none"
    /\ \E curve \in Curves :
          /\ fn' = "computePointCount"
          /\ args' = <<curve>>
          /\ ret' = computePointCount(curve)
    /\ UNCHANGED <<mrVars, kgVars, keyPair, cipherVars, uiVars, ecdsaVars, ladderVars>>

NextEC ==
    \/ CallPointNegate
    \/ CallPointAdd
    \/ CallPointDouble
    \/ CallScalarMultiply
    \/ CallScalarMultiplySecure
    \/ CallComputePointCount

SpecEC == Init /\ [][NextEC]_vars

-----------------------------------------------------------------------------
(* Properties of the elliptic curve functions.                             *)

\* P is a point of an elliptic curve over a prime field: p is an odd prime,
\* the curve is non-singular and the coordinates are field elements
OnEllipticCurve(P) ==
    /\ IsPrime(P.curve.p) /\ P.curve.p > 2
    /\ P.curve \in ValidCurves
    /\ P \in FieldPoints[P.curve]

\* two calls return equal points, or both raise an error
Agree(r1, r2) ==
    IF r1.kind = "value" /\ r2.kind = "value" THEN equals(r1.val, r2.val)
    ELSE r1.kind # "value" /\ r2.kind # "value"

RECURSIVE KFoldSum(_, _)
\* P + ... + P with k summands, added one at a time with pointAdd
KFoldSum(k, P) ==
    IF k = 0 THEN Value(infinity(P.curve))
    ELSE Then(KFoldSum(k - 1, P), LAMBDA S : pointAdd(S, P))

\* C11: scalarMultiply and scalarMultiplySecure agree on all inputs: for every
\* scalar k and every point P on the curve (or infinity) both return equal
\* points, and an input one of them rejects (k < 0) is rejected by the other.
C11_Claim ==
    (fn = "scalarMultiply" /\ OnEllipticCurve(args[2])) =>
        Agree(ret, scalarMultiplySecure(args[1], args[2]))

\* the two functions agree for every scalar k >= 0
C11_AgreeOnNonNegativeScalars ==
    (fn = "scalarMultiply" /\ OnEllipticCurve(args[2]) /\ args[1] >= 0) =>
        /\ ret.kind = "value"
        /\ Agree(ret, scalarMultiplySecure(args[1], args[2]))

\* C12: scalarMultiply(k, P) returns the k-fold sum P + ... + P computed with
\* pointAdd for every k >= 0 and every curve point P (infinity for k = 0 and
\* pointDouble(P) for k = 2) and raises an error for k < 0.
C12_ScalarMultiplyIsSum ==
    (fn = "scalarMultiply" /\ OnEllipticCurve(args[2])) =>
        IF args[1] < 0 THEN ret = Thrown("Scalar must be non-negative")
        ELSE /\ ret.kind = "value"
             /\ KFoldSum(args[1], args[2]).kind = "value"
             /\ equals(ret.val, KFoldSum(args[1], args[2]).val)
             /\ args[1] = 0 => ret.val.isInfinity
             /\ args[1] = 2 => Agree(ret, pointDouble(args[2]))

C12_Witness ==
    /\ fn = "scalarMultiply"
    /\ args[1] = 25
    /\ args[2] = Point(1, 13, DefaultFiniteCurve)
    /\ ret = pointAdd(KFoldSum(24, args[2]).val, args[2])
    /\ ret = Value(args[2])

\* C13: For every point P on the curve, including points with y = 0 and the
\* point at infinity, pointAdd(P, pointNegate(P)) is the point at infinity.
C13_AddNegated ==
    (fn = "pointAdd" /\ OnEllipticCurve(args[1]) /\ args[2] = pointNegate(args[1])) =>
        ret = Value(infinity(args[1].curve))

C13_Witness ==
    /\ fn = "pointAdd"
    /\ args[1].curve = DefaultFiniteCurve
    /\ ~args[1].isInfinity /\ args[1].y = 0 /\ isOnCurve(args[1])
    /\ args[2] = pointNegate(args[1])
    /\ ret = Value(infinity(DefaultFiniteCurve))

\* C14: For all points P and Q on the curve, including infinity, P = Q and
\* P = -Q, pointAdd(P, Q) equals pointAdd(Q, P).
C14_Commutative ==
    (fn = "pointAdd" /\ OnEllipticCurve(args[1]) /\ OnEllipticCurve(args[2])) =>
        /\ ret.kind = "value"
        /\ Agree(ret, pointAdd(args[2], args[1]))

C14_Witness ==
    /\ fn = "pointAdd"
    /\ args[1] = Point(1, 13, DefaultFiniteCurve)
    /\ args[2] = Point(6, 4, DefaultFiniteCurve)
    /\ ret.kind = "value" /\ ~ret.val.isInfinity /\ isOnCurve(ret.val)
    /\ ret = pointAdd(args[2], args[1])

\* C15: For the curve a = 0, b = 7, p = 23 the number of points counted by
\* computePointCount (affine points plus the point at infinity) satisfies
\* Hasse's bound |#E - (p+1)| <= 2*sqrt(p), i.e. (#E - 24)^2 <= 92.
C15_HasseBound ==
    (fn = "computePointCount" /\ args[1] = [a |-> 0, b |-> 7, p |-> 23]) =>
        /\ ret.kind = "value"
        /\ (ret.val - 24) * (ret.val - 24) <= 92

C15_Witness ==
    /\ fn = "computePointCount"
    /\ args[1] = [a |-> 0, b |-> 7, p |-> 23]
    /\ ret = Value(1 + Cardinality(FieldPoints[args[1]] \ {infinity(args[1])}))

\* C18: For every curve accepted by validateCurveParameters and all points
\* P, Q accepted by isOnCurve on that curve, pointAdd(P, Q) and pointDouble(P)
\* never raise the 'Division by zero' error.
C18_Claim ==
    (/\ fn \in {"pointAdd", "pointDouble"}
     /\ \A i \in 1..Len(args) : validateCurveParameters(args[i].curve) /\ isOnCurve(args[i]))
    => ret.kind \notin {"Division by zero in point addition",
                        "Division by zero in point doubling"}

\* ... which holds when p is an odd prime and the coordinates are field elements
C18_FieldPointsOfPrimeCurves ==
    (/\ fn \in {"pointAdd", "pointDouble"}
     /\ \A i \in 1..Len(args) : OnEllipticCurve(args[i]))
    => ret.kind = "value" /\ isOnCurve(ret.val)

-----------------------------------------------------------------------------
(* ec-visualization.js: handleECDH on the test curve. The ECDH class is   *)
(* modelled from section 4.7 of the specification.                         *)

\* handleECDH: 'test-small'
ECDHTestCurve ==
    [curve |-> [a |-> 0, b |-> 7, p |-> 23],
     G |-> Point(6, 4, [a |-> 0, b |-> 7, p |-> 23]),
     n |-> 28]

\* the private scalars d in [1, n-1]
PrivateScalars(params) == 1..(params.n - 1)

\* each party publishes Q = scalarMultiply(d, G)
ecdhGenerateKeyPair(d, params) ==
    Then(scalarMultiply(d, params.G),
         LAMBDA Q : Value([privateKey |-> d, publicKey |-> Q]))

\* the shared point S = d_self * Q_peer
computeSharedSecret(privateKey, publicKey) == scalarMultiply(privateKey, publicKey)

HandleECDH ==
    /\ fn = "none"
    /\ \E dA \in PrivateScalars(ECDHTestCurve), dB \in PrivateScalars(ECDHTestCurve) :
          /\ fn' = "handleECDH"
          /\ args' = <<dA, dB>>
          /\ ret' = Then(ecdhGenerateKeyPair(dA, ECDHTestCurve), LAMBDA alice :
                    Then(ecdhGenerateKeyPair(dB, ECDHTestCurve), LAMBDA bob :
                    Then(computeSharedSecret(alice.privateKey, bob.publicKey), LAMBDA aliceSecret :
                    Then(computeSharedSecret(bob.privateKey, alice.publicKey), LAMBDA bobSecret :
                         Value([alice |-> alice, bob |-> bob,
                                aliceSecret |-> aliceSecret, bobSecret |-> bobSecret])))))
    /\ UNCHANGED <<mrVars, kgVars, keyPair, cipherVars, uiVars, ecdsaVars, ladderVars>>

NextECDH == HandleECDH

SpecECDH == Init /\ [][NextECDH]_vars

\* C17: For all private scalars dA, dB in [1, n-1] and the generator G of the
\* ECDH test curve, scalarMultiply(dA, scalarMultiply(dB, G)) equals
\* scalarMultiply(dB, scalarMultiply(dA, G)), so both parties compute the same
\* shared point.
C17_SharedPoint ==
    fn = "handleECDH" =>
        LET G == ECDHTestCurve.G
            QA == scalarMultiply(args[1], G)
            QB == scalarMultiply(args[2], G)
        IN  /\ QA.kind = "value" /\ QB.kind = "value"
            /\ scalarMultiply(args[1], QB.val).kind = "value"
            /\ Agree(scalarMultiply(args[1], QB.val), scalarMultiply(args[2], QA.val))
            /\ ret.kind = "value"
            /\ equals(ret.val.aliceSecret, ret.val.bobSecret)
            /\ equals(ret.val.aliceSecret, scalarMultiply(args[1], QB.val).val)

C17_Witness ==
    /\ fn = "handleECDH"
    /\ args = <<3, 5>>
    /\ ret.kind = "value"
    /\ ~ret.val.aliceSecret.isInfinity
    /\ ret.val.aliceSecret = ret.val.bobSecret
    /\ ret.val.alice.publicKey # ret.val.bob.publicKey

-----------------------------------------------------------------------------
(* ec-visualization.js: handleECDSASign and handleECDSAVerify. The ECDSA   *)
(* class is modelled from section 4.7 of the specification; the message    *)
(* enters through its hash h.                                              *)

\* message hashes h range over 0..MaxHash
MaxHash == 1

\* handleECDSASign: 'test-small'
ECDSATestCurve ==
    [curve |-> [a |-> 0, b |-> 7, p |-> 23],
     G |-> Point(5, 4, [a |-> 0, b |-> 7, p |-> 23]),
     n |-> 28]

\* a named curve as section 3 of the specification describes it: G is a point
\* of the curve and n, a prime, is the order of G
PrimeOrderCurve ==
    [curve |-> [a |-> 2, b |-> 17, p |-> 23],
     G |-> Point(2, 11, [a |-> 2, b |-> 17, p |-> 23]),
     n |-> 19]

ECDSACurves == {ECDSATestCurve, PrimeOrderCurve}

\* the private key d in [1, n-1] and its public key Q = d * G
ecdsaGenerateKeyPair(d, params) ==
    Then(scalarMultiply(d, params.G),
         LAMBDA Q : Value([privateKey |-> d, publicKey |-> Q]))

\* R = kG, r = R.x mod n, s = k^-1 (h + r d) mod n; r = 0 or s = 0: redraw
ecdsaSign(h, d, k, params) ==
    Then(scalarMultiply(k, params.G), LAMBDA R :
        LET n == params.n
            r == IF R.isInfinity THEN 0 ELSE R.x % n
        IN  IF r = 0 THEN Thrown("redraw")
            ELSE Let(modInverse(k, n), LAMBDA kInv :
                 IF kInv = Null THEN Thrown("NoModularInverse")
                 ELSE Let((kInv.val * ((h + r * d) % n)) % n, LAMBDA s :
                      IF s = 0 THEN Thrown("redraw")
                      ELSE Value([r |-> r, s |-> s]))))

\* reject unless r, s in [1, n-1]; w = s^-1 mod n, u1 = h w, u2 = r w,
\* R' = u1 G + u2 Q; accept iff R' is not infinity and R'.x mod n = r
ecdsaVerify(h, signature, Q, params) ==
    LET n == params.n
        r == signature.r
        s == signature.s
    IN  IF r < 1 \/ r > n - 1 \/ s < 1 \/ s > n - 1 THEN Value(FALSE)
        ELSE Let(modInverse(s, n), LAMBDA w :
             IF w = Null THEN Thrown("NoModularInverse")
             ELSE Then(scalarMultiply((h * w.val) % n, params.G), LAMBDA U1 :
                  Then(scalarMultiply((r * w.val) % n, Q), LAMBDA U2 :
                  Then(pointAdd(U1, U2), LAMBDA R1 :
                       Value(~R1.isInfinity /\ R1.x % n = r)))))

\* what one run of handleECDSASign can store in window.ecdsaState: a key
\* pair is generated and the message signed; an error stores nothing
SignOutcomes ==
    UNION { { LET keys == ecdsaGenerateKeyPair(d, params)
                  signature == ecdsaSign(message1, d, k, params)
              IN  IF keys.kind = "value" /\ signature.kind = "value"
                  THEN Value([signed |-> TRUE, curve |-> params,
                              keyPair |-> keys.val, message |-> message1,
                              signature |-> signature.val])
                  ELSE IF keys.kind # "value" THEN Thrown(keys.kind)
                  ELSE Thrown(signature.kind) :
              d \in PrivateScalars(params), k \in PrivateScalars(params),
              message1 \in 0..MaxHash } : params \in ECDSACurves }
    \ {Thrown("redraw")}

HandleECDSASign ==
    /\ \E outcome \in SignOutcomes :
          IF outcome.kind = "value"
          THEN /\ ecdsaState' = outcome.val
               \* no verification of the newly stored signature has run yet
               /\ verification' = NoVerification
          ELSE UNCHANGED <<ecdsaState, verification>>
    /\ UNCHANGED <<callVars, mrVars, kgVars, keyPair, cipherVars, uiVars, ladderVars>>

\* handleECDSAVerify: the stored signature is verified against the message
\* typed into the verification field
HandleECDSAVerify ==
    /\ ecdsaState.signed
    /\ \E verifyMessage \in 0..MaxHash :
          verification' =
              [verifyMessage |-> verifyMessage,
               result |-> Let(ecdsaVerify(verifyMessage, ecdsaState.signature,
                                          ecdsaState.keyPair.publicKey, ecdsaState.curve),
                              LAMBDA v : IF v.kind # "value" THEN v.kind
                                         ELSE IF v.val THEN "accepted" ELSE "rejected")]
    /\ UNCHANGED <<ecdsaState, callVars, mrVars, kgVars, keyPair, cipherVars, uiVars, ladderVars>>

NextECDSA == HandleECDSASign \/ HandleECDSAVerify

SpecECDSA == Init /\ [][NextECDSA]_vars

\* C16: For every message and every private key d in [1, n-1] with public key
\* Q = d*G, ECDSA verification of the signature produced by ECDSA signing
\* accepts (returns true), including on the small test curve the ECDSA demo
\* configures (a=0, b=7, p=23 with its declared G and n).
C16_Claim ==
    (verification.result # "none" /\ verification.verifyMessage = ecdsaState.message)
        => verification.result = "accepted"

\* the claim holds where n is prime and the order of G
C16_OnPrimeOrderCurve ==
    (/\ verification.result # "none"
     /\ verification.verifyMessage = ecdsaState.message
     /\ ecdsaState.curve = PrimeOrderCurve)
        => verification.result = "accepted"

\* the signature (5, 6) made with d = 1 for the hash 1 on the test curve is
\* not accepted
C16_RejectedOwnSignature ==
    /\ ecdsaState.signed
    /\ ecdsaState.curve = ECDSATestCurve
    /\ ecdsaState.keyPair.privateKey = 1
    /\ ecdsaState.message = 1
    /\ ecdsaState.signature = [r |-> 5, s |-> 6]
    /\ verification.verifyMessage = 1
    /\ verification.result \notin {"none", "accepted"}

-----------------------------------------------------------------------------
(* ec-visualization.js: the finite field panel. currentFiniteCurve is also *)
(* the visualizer's this.curve: both are assigned together. An animation   *)
(* is taken as one step.                                                   *)

\* the custom coefficients a and b range over 0..MaxCoefficient
MaxCoefficient == 1
\* clicks hit the points with both coordinates in 0..MaxClick
MaxClick == 2
\* the scalar input ranges over -MaxBeyond..MaxScalarInput
MaxScalarInput == 3

\* values typed into the field for p: below 2, composite, 1 and 3 modulo 4
CustomModuli == {1, 4, 5, 7}

isDivisibleBySmallPrime(num) ==
    \E p \in SMALL_PRIMES : JsRem(num, p) = 0 /\ num # p

RECURSIVE FiniteFieldPointsLoop(_, _, _)
FiniteFieldPointsLoop(curve, xNum, points) ==
    IF xNum < curve.p
    THEN LET a == curve.a
             b == curve.b
             p == curve.p
             x2 == modMul(xNum, xNum, p)
             x3 == modMul(x2, xNum, p)
             ax == modMul(a, xNum, p)
             ySquared == modAdd(modAdd(x3, ax, p), b, p)
         IN  Let(modSqrt(ySquared, p), LAMBDA y :
             IF y.kind = "value"
             THEN FiniteFieldPointsLoop(curve, xNum + 1,
                      IF y.val # 0
                      THEN points \o <<[x |-> xNum, y |-> y.val],
                                       [x |-> xNum, y |-> p - y.val]>>
                      ELSE Append(points, [x |-> xNum, y |-> y.val]))
             ELSE IF y = Null
             THEN FiniteFieldPointsLoop(curve, xNum + 1, points)
             ELSE y)
    ELSE Value(points)

computeFiniteFieldPoints(curve) == FiniteFieldPointsLoop(curve, 0, <<>>)

\* the curves the panel can show
FiniteCurves ==
    {DefaultFiniteCurve, TestCurve97}
        \cup { [a |-> a, b |-> b, p |-> p] :
                 a \in 0..MaxCoefficient, b \in 0..MaxCoefficient, p \in CustomModuli }

\* what computeFiniteFieldPoints returns for each of them
PointsOfCurve == [curve \in FiniteCurves |-> computeFiniteFieldPoints(curve)]

\* findNearestPoint for a click at the position (x, y): a point at distance 0
\* is nearer than every threshold
findNearestPoint(x, y, curve) ==
    Then(PointsOfCurve[curve], LAMBDA points :
         IF \E i \in 1..Len(points) : points[i] = [x |-> x, y |-> y]
         THEN Value([x |-> x, y |-> y])
         ELSE Null)

selectPoint(selected, point) ==
    Append(IF Len(selected) >= 2 THEN <<>> ELSE selected, point)

\* the result animatePointAddition computes
animatePointAddition(P, Q, curve) ==
    IF P.x = Q.x /\ P.y = Q.y
    THEN pointDouble(Point(P.x, P.y, curve))
    ELSE pointAdd(Point(P.x, P.y, curve), Point(Q.x, Q.y, curve))

RECURSIVE AnimateScalarLoop(_, _, _, _, _)
AnimateScalarLoop(k, length, i, result, temp) ==
    IF i < length
    THEN Then(IF BitAt(k, i) = 1 THEN pointAdd(result, temp) ELSE Value(result),
              LAMBDA result1 :
         Then(pointDouble(temp), LAMBDA temp1 :
              AnimateScalarLoop(k, length, i + 1, result1, temp1)))
    ELSE Value(result)

\* the result animateScalarMultiplication computes
animateScalarMultiplication(k, P, curve) ==
    AnimateScalarLoop(k, BinaryStringLength(k), 0, infinity(curve), Point(P.x, P.y, curve))

HandleFiniteCurveChange ==
    /\ \E value \in {"test-23", "test-97", "custom"} :
          currentFiniteCurve' =
              IF value = "test-23" THEN DefaultFiniteCurve
              ELSE IF value = "test-97" THEN TestCurve97
              ELSE currentFiniteCurve
    /\ UNCHANGED <<selectedPoints, pointOpsEnabled, operation, isAnimating,
                   callVars, mrVars, kgVars, keyPair, cipherVars, ecdsaVars, ladderVars>>

\* p below 2 is refused; otherwise the curve is taken, and the point
\* operations are enabled unless a small prime divides p
HandleFiniteCustomCurve ==
    /\ \E a \in 0..MaxCoefficient, b \in 0..MaxCoefficient, p \in CustomModuli :
          IF p < 2
          THEN UNCHANGED <<currentFiniteCurve, pointOpsEnabled>>
          ELSE /\ pointOpsEnabled' = ~isDivisibleBySmallPrime(p)
               /\ currentFiniteCurve' = [a |-> a, b |-> b, p |-> p]
    /\ UNCHANGED <<selectedPoints, operation, isAnimating,
                   callVars, mrVars, kgVars, keyPair, cipherVars, ecdsaVars, ladderVars>>

HandleClick ==
    /\ \E x \in 0..MaxClick, y \in 0..MaxClick :
          LET nearestPoint == findNearestPoint(x, y, currentFiniteCurve)
          IN  IF nearestPoint.kind = "value"
              THEN selectedPoints' = selectPoint(selectedPoints, nearestPoint.val)
              ELSE UNCHANGED selectedPoints
    /\ UNCHANGED <<currentFiniteCurve, pointOpsEnabled, operation, isAnimating,
                   callVars, mrVars, kgVars, keyPair, cipherVars, ecdsaVars, ladderVars>>

\* an error thrown by the point arithmetic leaves isAnimating set
HandlePointAddition ==
    /\ pointOpsEnabled
    /\ Len(selectedPoints) >= 2
    /\ ~isAnimating
    /\ LET result == animatePointAddition(selectedPoints[1], selectedPoints[2],
                                          currentFiniteCurve)
       IN  /\ operation' = [op |-> IF selectedPoints[1] = selectedPoints[2]
                                   THEN "pointDouble" ELSE "pointAdd",
                            curve |-> currentFiniteCurve]
           /\ isAnimating' = (result.kind # "value")
    /\ UNCHANGED <<currentFiniteCurve, selectedPoints, pointOpsEnabled,
                   callVars, mrVars, kgVars, keyPair, cipherVars, ecdsaVars, ladderVars>>

HandlePointDoubling ==
    /\ pointOpsEnabled
    /\ Len(selectedPoints) >= 1
    /\ ~isAnimating
    /\ LET result == animatePointAddition(selectedPoints[1], selectedPoints[1],
                                          currentFiniteCurve)
       IN  /\ operation' = [op |-> "pointDouble", curve |-> currentFiniteCurve]
           /\ isAnimating' = (result.kind # "value")
    /\ UNCHANGED <<currentFiniteCurve, selectedPoints, pointOpsEnabled,
                   callVars, mrVars, kgVars, keyPair, cipherVars, ecdsaVars, ladderVars>>

HandleScalarMultiply ==
    /\ pointOpsEnabled
    /\ Len(selectedPoints) >= 1
    /\ ~isAnimating
    /\ \E k \in (-MaxBeyond)..MaxScalarInput :
          IF k <= 0
          THEN UNCHANGED <<operation, isAnimating>>
          ELSE LET result == animateScalarMultiplication(k, selectedPoints[1],
                                                         currentFiniteCurve)
               IN  /\ operation' = [op |-> "scalarMultiply", curve |-> currentFiniteCurve]
                   /\ isAnimating' = (result.kind # "value")
    /\ UNCHANGED <<currentFiniteCurve, selectedPoints, pointOpsEnabled,
                   callVars, mrVars, kgVars, keyPair, cipherVars, ecdsaVars, ladderVars>>

HandleClearSelection ==
    /\ pointOpsEnabled
    /\ selectedPoints' = <<>>
    /\ UNCHANGED <<currentFiniteCurve, pointOpsEnabled, operation, isAnimating,
                   callVars, mrVars, kgVars, keyPair, cipherVars, ecdsaVars, ladderVars>>

NextUI ==
    \/ HandleFiniteCurveChange
    \/ HandleFiniteCustomCurve
    \/ HandleClick
    \/ HandlePointAddition
    \/ HandlePointDoubling
    \/ HandleScalarMultiply
    \/ HandleClearSelection

SpecUI == Init /\ [][NextUI]_vars

C19_AdditionOnSingularCurve ==
    /\ operation = [op |-> "pointAdd", curve |-> [a |-> 0, b |-> 0, p |-> 7]]
    /\ currentFiniteCurve = [a |-> 0, b |-> 0, p |-> 7]
    /\ selectedPoints = <<[x |-> 1, y |-> 1], [x |-> 2, y |-> 1]>>

-----------------------------------------------------------------------------
(* rsa-core.js: the yield of generatePrime (SpecKeyGen).                   *)

\* C20: While generatePrime searches, it yields to the event loop
\* periodically: in every run, no more than 10 consecutive candidate attempts
\* are processed without a yield (sleep(0)) in between, whichever candidates
\* are rejected by trial division or by Miller-Rabin.
C20_Claim == attempts - lastYield <= 10

\* eleven attempts of one generatePrime(8) call without a yield
C20_ElevenAttemptsNoYield ==
    kgPc = "generatePrime" /\ kgBits = 8 /\ attempts = 11 /\ lastYield = 0

-----------------------------------------------------------------------------
(* rsa-core.js: retries of key generation (SpecKeyGen).                    *)

\* C21: Retries during key generation are bounded: the candidate loop of
\* generatePrime, the regeneration of q while q = p, and the restart of
\* generateKeyPair on a failed check each stop after an explicit maximum
\* number of attempts instead of retrying without limit. No test of the code
\* stops a retry, so the counters stay below every bound only if some test ends
\* the loop before it: here, before the bounds of the model.
C21_Claim == attempts < MaxAttempts /\ restarts < MaxRestarts

\* generatePrime(8) is still drawing after MaxAttempts rejected candidates
C21_CandidateLoopGoesOn ==
    kgPc = "generatePrime" /\ kgBits = 8 /\ attempts = MaxAttempts

\* generateKeyPair has re-invoked itself MaxRestarts times and goes on
C21_RestartsGoOn == kgPc = "generatePrime p" /\ restarts = MaxRestarts

-----------------------------------------------------------------------------
(* ec-math-utils.js: scalarMultiplySecure, one step per processed bit.     *)
(* adds and doubles count the pointAdd and pointDouble calls, bits the     *)
(* completed iterations of the for loop.                                   *)

\* scalarMultiplySecure(k, P) up to the first iteration of the loop
CallLadder ==
    /\ ladder.pc = "idle"
    /\ \E curve \in ValidCurves : \E P \in FieldPoints[curve], k \in Scalars :
          ladder' =
              IF k = 0 THEN [pc |-> "returned", k |-> k, P |-> P,
                             result |-> infinity(P.curve)]
              ELSE IF k = 1 THEN [pc |-> "returned", k |-> k, P |-> P,
                                  result |-> clone(P)]
              ELSE [pc |-> "loop", k |-> k, P |-> P,
                    R0 |-> infinity(P.curve), R1 |-> clone(P),
                    i |-> BinaryStringLength(k) - 1,
                    bits |-> 0, adds |-> 0, doubles |-> 0]
    /\ UNCHANGED <<callVars, mrVars, kgVars, keyPair, cipherVars, uiVars, ecdsaVars>>

\* the call ends with the error thrown by pointAdd or pointDouble
LadderThrown(kind, adds, doubles) ==
    [pc |-> "thrown", k |-> ladder.k, P |-> ladder.P, error |-> kind,
     bits |-> ladder.bits, adds |-> adds, doubles |-> doubles]

\* one iteration of the for loop
LadderBit ==
    /\ ladder.pc = "loop"
    /\ ladder.i >= 0
    /\ LET bit == BitAt(ladder.k, ladder.i)
           sum == pointAdd(ladder.R0, ladder.R1)
           double == IF bit = 0 THEN pointDouble(ladder.R0) ELSE pointDouble(ladder.R1)
       IN  ladder' =
               IF sum.kind # "value"
               THEN LadderThrown(sum.kind, ladder.adds + 1, ladder.doubles)
               ELSE IF double.kind # "value"
               THEN LadderThrown(double.kind, ladder.adds + 1, ladder.doubles + 1)
               ELSE [ladder EXCEPT
                        !.R0 = IF bit = 0 THEN double.val ELSE sum.val,
                        !.R1 = IF bit = 0 THEN sum.val ELSE double.val,
                        !.i = ladder.i - 1,
                        !.bits = ladder.bits + 1,
                        !.adds = ladder.adds + 1,
                        !.doubles = ladder.doubles + 1]
    /\ UNCHANGED <<callVars, mrVars, kgVars, keyPair, cipherVars, uiVars, ecdsaVars>>

\* return R0
LadderReturn ==
    /\ ladder.pc = "loop"
    /\ ladder.i < 0
    /\ ladder' = [pc |-> "returned", k |-> ladder.k, P |-> ladder.P,
                  result |-> ladder.R0]
    /\ UNCHANGED <<callVars, mrVars, kgVars, keyPair, cipherVars, uiVars, ecdsaVars>>

NextLadder == CallLadder \/ LadderBit \/ LadderReturn

SpecLadder == Init /\ [][NextLadder]_vars

\* C25: In scalarMultiplySecure, after every processed bit of k the ladder
\* state satisfies R1 = R0 + P (as curve points), and each bit performs
\* exactly one pointAdd and one pointDouble whatever the bit's value.
C25_LadderInvariant ==
    ladder.pc = "loop" =>
        /\ ladder.bits > 0 => Agree(Value(ladder.R1), pointAdd(ladder.R0, ladder.P))
        /\ ladder.adds = ladder.bits
        /\ ladder.doubles = ladder.bits

\* both a 0 bit and a 1 bit of k = 22 = 10110 have been processed on the
\* curve over F_23
C25_Witness ==
    /\ ladder.pc = "loop"
    /\ ladder.k = 22
    /\ ladder.P = Point(1, 13, DefaultFiniteCurve)
    /\ ladder.bits = 4
    /\ ~ladder.R0.isInfinity /\ ~ladder.R1.isInfinity

\* the ladder run step by step returns what scalarMultiplySecure returns
C25_StepsAgreeWithCall ==
    /\ ladder.pc = "returned" =>
          scalarMultiplySecure(ladder.k, ladder.P) = Value(ladder.result)
    /\ ladder.pc = "thrown" =>
          scalarMultiplySecure(ladder.k, ladder.P) = Thrown(ladder.error)

-----------------------------------------------------------------------------
(* Calls of the finite field functions and of isOnCurve with operands that *)
(* need not be reduced.                                                    *)

\* operands range over -MaxOperand..MaxOperand
MaxOperand == 6
\* moduli of modAdd, modSub, modMul and modPow range over 1..MaxFieldModulus
MaxFieldModulus == 7
\* exponents of modPow range over 0..MaxFieldExponent
MaxFieldExponent == 4
\* modSqrt is called with the primes up to MaxSqrtModulus and with a from
\* -MaxOperand to MaxSqrtModulus + MaxBeyond
MaxSqrtModulus == 13

Operands == (-MaxOperand)..MaxOperand

CallModAdd ==
    /\ fn = "none"
    /\ \E a \in Operands, b \in Operands, p \in 1..MaxFieldModulus :
          /\ fn' = "modAdd"
          /\ args' = <<a, b, p>>
          /\ ret' = Value(modAdd(a, b, p))
    /\ UNCHANGED <<mrVars, kgVars, keyPair, cipherVars, uiVars, ecdsaVars, ladderVars>>

CallModSub ==
    /\ fn = "none"
    /\ \E a \in Operands, b \in Operands, p \in 1..MaxFieldModulus :
          /\ fn' = "modSub"
          /\ args' = <<a, b, p>>
          /\ ret' = Value(modSub(a, b, p))
    /\ UNCHANGED <<mrVars, kgVars, keyPair, cipherVars, uiVars, ecdsaVars, ladderVars>>

CallModMul ==
    /\ fn = "none"
    /\ \E a \in Operands, b \in Operands, p \in 1..MaxFieldModulus :
          /\ fn' = "modMul"
          /\ args' = <<a, b, p>>
          /\ ret' = Value(modMul(a, b, p))
    /\ UNCHANGED <<mrVars, kgVars, keyPair, cipherVars, uiVars, ecdsaVars, ladderVars>>

\* ECMathUtils.modPow hands its arguments to MathUtils.modPow
CallFieldModPow ==
    /\ fn = "none"
    /\ \E base \in Operands, exp \in 0..MaxFieldExponent, p \in 1..MaxFieldModulus :
          /\ fn' = "modPow"
          /\ args' = <<base, exp, p>>
          /\ ret' = Value(modPow(base, exp, p))
    /\ UNCHANGED <<mrVars, kgVars, keyPair, cipherVars, uiVars, ecdsaVars, ladderVars>>

CallModSqrt ==
    /\ fn = "none"
    /\ \E p \in { q \in 2..MaxSqrtModulus : IsPrime(q) },
          a \in (-MaxOperand)..(MaxSqrtModulus + MaxBeyond) :
          /\ fn' = "modSqrt"
          /\ args' = <<a, p>>
          /\ ret' = modSqrt(a, p)
    /\ UNCHANGED <<mrVars, kgVars, keyPair, cipherVars, uiVars, ecdsaVars, ladderVars>>

\* isOnCurve for points and coefficients from -MaxBeyond to p + MaxBeyond
CallIsOnCurve ==
    /\ fn = "none"
    /\ \E p \in { q \in 3..MaxModulus : IsPrime(q) } :
       \E a \in (-MaxBeyond)..(p + MaxBeyond), b \in (-MaxBeyond)..(p + MaxBeyond),
          x \in (-MaxBeyond)..(p + MaxBeyond), y \in (-MaxBeyond)..(p + MaxBeyond),
          isInfinity \in BOOLEAN :
          LET curve == [a |-> a, b |-> b, p |-> p]
              P == IF isInfinity THEN infinity(curve) ELSE Point(x, y, curve)
          IN  /\ isInfinity => (x = 0 /\ y = 0)
              /\ fn' = "isOnCurve"
              /\ args' = <<P>>
              /\ ret' = Value(isOnCurve(P))
    /\ UNCHANGED <<mrVars, kgVars, keyPair, cipherVars, uiVars, ecdsaVars, ladderVars>>

NextField ==
    \/ CallModAdd
    \/ CallModSub
    \/ CallModMul
    \/ CallFieldModPow
    \/ CallModSqrt
    \/ CallIsOnCurve

SpecField == Init /\ [][NextField]_vars

\* r is a square root of a modulo p
IsRootOf(r, a, p) == (r * r - a) % p = 0

\* C22: For every prime p = 3 (mod 4) and every integer a, modSqrt(a, p)
\* returns r with r^2 = a (mod p) when a is a quadratic residue or
\* a = 0 (mod p), and reports no root (null) otherwise; for p = 1 (mod 4) it
\* never returns a wrong root (it reports no root, returns 0 for a = 0, or
\* raises the not-implemented error).
C22_Claim ==
    fn = "modSqrt" =>
        LET a == args[1]
            p == args[2]
        IN  /\ p % 4 = 3 =>
                  IF \E r \in 0..(p - 1) : IsRootOf(r, a, p)
                  THEN ret.kind = "value" /\ IsRootOf(ret.val, a, p)
                  ELSE ret = Null
            /\ p % 4 = 1 =>
                  \/ ret = Null
                  \/ ret = Value(0) /\ a = 0
                  \/ ret = Thrown("modSqrt for p = 1 (mod 4) not implemented")

\* the same for the operands that are 0 or not a multiple of p
C22_ExceptMultiplesOfP ==
    (fn = "modSqrt" /\ (args[1] = 0 \/ args[1] % args[2] # 0)) => C22_Claim

\* modSqrt(p, p) reports no root although 0 is one
C22_NoRootOfMultiple == fn = "modSqrt" /\ args = <<7, 7>> /\ ret = Null

\* C23: Modular arithmetic results are always normalized: modAdd, modSub,
\* modMul and modPow return a value in [0, modulus) for all integer operands,
\* including negative ones.
C23_Claim ==
    fn \in {"modAdd", "modSub", "modMul", "modPow"} =>
        0 <= ret.val /\ ret.val < args[3]

\* modSub alone normalizes a negative remainder
C23_ModSubNormalized ==
    fn = "modSub" => 0 <= ret.val /\ ret.val < args[3]

\* the results for operands that are not negative are in [0, modulus)
C23_NonNegativeOperands ==
    (fn \in {"modAdd", "modMul", "modPow"} /\ args[1] >= 0 /\ args[2] >= 0) =>
        0 <= ret.val /\ ret.val < args[3]

\* modAdd(-1, 0, 5) returns -1
C23_NegativeSum == fn = "modAdd" /\ args = <<-1, 0, 5>> /\ ret = Value(-1)

\* C27: isOnCurve(P) returns true exactly when P is the point at infinity or
\* y^2 = x^3 + a*x + b (mod p) holds, for all integer coordinates x, y and all
\* integer curve coefficients a, b (whether or not they are already reduced
\* into [0, p)).
C27_Claim ==
    fn = "isOnCurve" =>
        LET P == args[1]
            x == P.x
            y == P.y
        IN  ret.val = (\/ P.isInfinity
                       \/ (y * y - (x * x * x + P.curve.a * x + P.curve.b)) % P.curve.p = 0)

\* the same for coordinates and coefficients that are not negative
C27_NonNegative ==
    (/\ fn = "isOnCurve"
     /\ args[1].x >= 0 /\ args[1].y >= 0
     /\ args[1].curve.a >= 0 /\ args[1].curve.b >= 0) => C27_Claim

\* isOnCurve refuses (0, 2) on y^2 = x^3 - 1 over F_5: the right-hand side is
\* computed as -1, the left-hand side as 4
C27_RefusedPoint ==
    /\ fn = "isOnCurve"
    /\ args = <<Point(0, 2, [a |-> 0, b |-> -1, p |-> 5])>>
    /\ ret = Value(FALSE)

-----------------------------------------------------------------------------
(* math-utils.js: stringToBigInt and bigIntToString; rsa-core.js:          *)
(* encryptString and decryptString. A string is the sequence of its        *)
(* character codes.                                                        *)

\* strings have at most MaxStringLength characters
MaxStringLength == 2
\* ... taken from these character codes
CharCodes == {0, 1, 65, 255}

RECURSIVE StringToBigIntLoop(_, _, _)
\* the for loop of stringToBigInt at 0-based index i
StringToBigIntLoop(str, i, result) ==
    IF i < Len(str)
    THEN StringToBigIntLoop(str, i + 1, result * 256 + str[i + 1])
    ELSE result

stringToBigInt(str) == StringToBigIntLoop(str, 0, 0)

RECURSIVE BigIntToStringLoop(_, _)
\* the while loop of bigIntToString; unshift puts the character in front
BigIntToStringLoop(remaining, chars) ==
    IF remaining > 0
    THEN BigIntToStringLoop(JsDiv(remaining, 256), <<JsRem(remaining, 256)>> \o chars)
    ELSE chars

bigIntToString(num) ==
    IF num = 0 THEN <<0>> ELSE BigIntToStringLoop(num, <<>>)

encryptString(str, publicKey) == encrypt(stringToBigInt(str), publicKey)

decryptString(c, privateKey) ==
    Then(decrypt(c, privateKey), LAMBDA plaintextInt : Value(bigIntToString(plaintextInt)))

Strings == UNION { [1..len -> CharCodes] : len \in 0..MaxStringLength }

EncryptString ==
    /\ ciphertext = NoResult
    /\ \E str \in Strings :
          /\ message' = str
          /\ ciphertext' = encryptString(str, keyPair.publicKey)
    /\ UNCHANGED <<plaintext, keyPair, callVars, mrVars, kgVars, uiVars, ecdsaVars, ladderVars>>

\* decryptString of the ciphertext encryptString returned
DecryptString ==
    /\ ciphertext.kind = "value"
    /\ plaintext = NoResult
    /\ plaintext' = decryptString(ciphertext.val, keyPair.privateKey)
    /\ UNCHANGED <<message, ciphertext, keyPair, callVars, mrVars, kgVars, uiVars, ecdsaVars, ladderVars>>

NextStrings == EncryptString \/ DecryptString

SpecStrings == InitCipherKeys /\ [][NextStrings]_vars

\* C24: For every string s of one-byte symbols (character codes 0 to 255)
\* whose base-256 big-endian integer is below n,
\* decryptString(encryptString(s, pub), priv) equals s; equivalently
\* bigIntToString(stringToBigInt(s)) = s.
C24_Claim ==
    /\ (ciphertext # NoResult /\ stringToBigInt(message) < keyPair.publicKey.n)
          => /\ ciphertext.kind = "value"
             /\ bigIntToString(stringToBigInt(message)) = message
    /\ plaintext # NoResult => plaintext = Value(message)

\* the string comes back when it is "\0" or does not begin with the
\* character code 0 (the empty string does not come back)
C24_NoLeadingZero ==
    (ciphertext # NoResult /\ (message = <<0>> \/ (message # <<>> /\ message[1] # 0)))
        => /\ stringToBigInt(message) < keyPair.publicKey.n => ciphertext.kind = "value"
           /\ bigIntToString(stringToBigInt(message)) = message
           /\ plaintext # NoResult => plaintext = Value(message)

\* "\0A" comes back as "A"
C24_LeadingZeroLost ==
    ciphertext # NoResult /\ message = <<0, 65>> /\ plaintext = Value(<<65>>)

\* the empty string comes back as "\0"
C24_EmptyString ==
    ciphertext # NoResult /\ message = <<>> /\ plaintext = Value(<<0>>)

-----------------------------------------------------------------------------
(* The Point invariant on the results of the point arithmetic (SpecEC).    *)

\* P is infinity, or its coordinates are field elements that satisfy the
\* curve equation
IsCurvePoint(P) ==
    \/ P.isInfinity
    \/ /\ 0 <= P.x /\ P.x < P.curve.p
       /\ 0 <= P.y /\ P.y < P.curve.p
       /\ (P.y * P.y - (P.x * P.x * P.x + P.curve.a * P.x + P.curve.b)) % P.curve.p = 0

\* the points among the arguments of the call
ArgumentPoints ==
    IF fn \in {"scalarMultiply", "scalarMultiplySecure"} THEN {args[2]}
    ELSE { args[i] : i \in 1..Len(args) }

PointFunctions ==
    {"pointNegate", "pointAdd", "pointDouble", "scalarMultiply", "scalarMultiplySecure"}

\* C26: On a non-singular curve over a prime p > 3, every Point returned by
\* pointNegate, pointAdd, pointDouble, scalarMultiply and scalarMultiplySecure
\* from on-curve inputs is either the point at infinity or has 0 <= x, y < p
\* and satisfies y^2 = x^3 + a*x + b (mod p).
C26_Claim ==
    (/\ fn \in PointFunctions
     /\ ret.kind = "value"
     /\ IsPrime(ret.val.curve.p) /\ ret.val.curve.p > 3
     /\ validateCurveParameters(ret.val.curve)
     /\ \A P \in ArgumentPoints : isOnCurve(P))
        => IsCurvePoint(ret.val)

\* the same from inputs whose coordinates are field elements
C26_FromFieldPoints ==
    (/\ fn \in PointFunctions
     /\ ret.kind = "value"
     /\ IsPrime(ret.val.curve.p) /\ ret.val.curve.p > 3
     /\ validateCurveParameters(ret.val.curve)
     /\ \A P \in ArgumentPoints : IsCurvePoint(P))
        => IsCurvePoint(ret.val)

\* pointNegate of (24, 13), which isOnCurve accepts on y^2 = x^3 + 7 over
\* F_23, returns (24, 10)
C26_UnreducedResult ==
    /\ fn = "pointNegate"
    /\ args = <<Point(24, 13, DefaultFiniteCurve)>>
    /\ ret = Value(Point(24, 10, DefaultFiniteCurve))

-----------------------------------------------------------------------------
(* ec-math-utils.js: pointOrder, and the named-curve parameters of the     *)
(* demos' test curves.                                                     *)

RECURSIVE PointOrderLoop(_, _, _, _)
\* the while (order <= maxOrder) loop of pointOrder
PointOrderLoop(current, order, P, maxOrder) ==
    IF order <= maxOrder
    THEN IF current.isInfinity THEN Value(order)
         ELSE Then(pointAdd(current, P), LAMBDA next :
                   PointOrderLoop(next, order + 1, P, maxOrder))
    ELSE Null

pointOrder(P, maxOrder) ==
    IF P.isInfinity THEN Value(1) ELSE PointOrderLoop(clone(P), 1, P, maxOrder)

\* G lies on the curve and n is the order of G
NamedCurveValid(params) ==
    /\ isOnCurve(params.G)
    /\ pointOrder(params.G, 10000) = Value(params.n)

\* C28: The small test curve configured by the ECDH and ECDSA demos (a=0,
\* b=7, p=23) carries valid named-curve parameters: its generator G lies on
\* the curve (isOnCurve(G)) and its declared n is the order of G (n*G is
\* infinity and no smaller positive multiple of G is).
C28_Claim ==
    /\ ecdsaState.signed => NamedCurveValid(ecdsaState.curve)
    /\ fn = "handleECDH" => NamedCurveValid(ECDHTestCurve)

\* the generator of the ECDH demo lies on the curve
C28_ECDHGeneratorOnCurve ==
    fn = "handleECDH" => isOnCurve(ECDHTestCurve.G)

\* ... but its order is 8, not the declared 28
C28_ECDHOrder ==
    /\ fn = "handleECDH"
    /\ ECDHTestCurve.n = 28
    /\ pointOrder(ECDHTestCurve.G, 10000) = Value(8)

\* the generator of the ECDSA demo is not on the curve, and 4 G is infinity
C28_ECDSAGenerator ==
    /\ ecdsaState.signed
    /\ ecdsaState.curve = ECDSATestCurve
    /\ ~isOnCurve(ecdsaState.curve.G)
    /\ ecdsaState.curve.n = 28
    /\ pointOrder(ecdsaState.curve.G, 10000) = Value(4)

-----------------------------------------------------------------------------
(* rsa-core.js: termination of millerRabin (SpecMR).                       *)

\* C29: millerRabin(n, rounds) terminates for every integer n >= 0 and every
\* rounds >= 0: for each odd n > 3, randomWitness(n) finds a witness in
\* [2, n-2] after finitely many draws, assuming every value randomBigInt can
\* produce is eventually drawn. Under that assumption the do-while loop of
\* randomWitness ends exactly when some value randomBigInt can produce passes
\* its test.
C29_Claim ==
    mrPc = "randomWitness" =>
        \E witness \in WitnessDraws(mrN) : ~WitnessRejected(witness, mrN)

\* the same for every n that is not a power of two plus one
C29_ExceptPowersOfTwoPlusOne ==
    (mrPc = "randomWitness" /\ \A k \in 0..MaxBits : mrN # Pow2(k) + 1) => C29_Claim

\* randomWitness(17) has drawn 31 and draws again: every value of
\* randomBigInt(5) is in 16..31, none in [2, 15]
C29_SeventeenKeepsDrawing ==
    /\ mrPc = "randomWitness"
    /\ mrN = 17
    /\ mrDraw = 31
    /\ \A witness \in WitnessDraws(17) : witness >= 16

-----------------------------------------------------------------------------
(* ec-visualization.js: loading the curves of the selector (SpecUI).       *)

\* C30: Each finite-field curve offered by the curve selector (p = 23 with
\* a=0, b=7 and p = 97 with a=2, b=3) can be loaded: enumerating its points in
\* computeFiniteFieldPoints / computePointCount completes for every x in
\* [0, p) without raising an error.
C30_Claim ==
    currentFiniteCurve \in {DefaultFiniteCurve, TestCurve97} =>
        /\ PointsOfCurve[currentFiniteCurve].kind = "value"
        /\ computePointCount(currentFiniteCurve).kind = "value"

\* the curve over F_23 is enumerated: 23 points, 24 with infinity
C30_DefaultCurveLoads ==
    currentFiniteCurve = DefaultFiniteCurve =>
        /\ PointsOfCurve[currentFiniteCurve].kind = "value"
        /\ Len(PointsOfCurve[currentFiniteCurve].val) = 23
        /\ computePointCount(currentFiniteCurve) = Value(24)

\* 'test-97' is selected and both enumerations raise the modSqrt error
C30_TestCurve97Fails ==
    /\ currentFiniteCurve = TestCurve97
    /\ PointsOfCurve[TestCurve97] = Thrown("modSqrt for p = 1 (mod 4) not implemented")
    /\ computePointCount(TestCurve97) = Thrown("modSqrt for p = 1 (mod 4) not implemented")

=============================================================================
